---------------------------- MODULE Spec2Model ----------------------------
(***************************************************************************)
(* A model of the getoptx builtin (Src/Modules/getoptx.c).                 *)
(*                                                                         *)
(* A C string is a sequence of one-character strings; NUL is the empty     *)
(* string "" used as an element, so that a buffer (argstr) can be modelled *)
(* with the bytes it holds after its terminator.  A NULL pointer to a C    *)
(* string is the value NULL.  C array indices are kept: argv[k] of the     *)
(* code is argv[k + 1] of the model's sequence.                            *)
(***************************************************************************)
EXTENDS Integers, Sequences, FiniteSets, TLC

RET_OK == 0
RET_LIB_ERR == 1
RET_BIN_ERR == 2

no_argument == 0
required_argument == 1
optional_argument == 2

\* The size of build_argstr's first buffer.
buf_len == 32

NUL == ""
NULL == <<"NULL">>

Digits == {"0", "1", "2", "3", "4", "5", "6", "7", "8", "9"}
DigitSeq == <<"0", "1", "2", "3", "4", "5", "6", "7", "8", "9">>

\* ispunct(3) in the C locale (but for the backquote, which no string of the
\* model holds).
PunctChars ==
    {"!", "\"", "#", "$", "%", "&", "'", "(", ")", "*", "+", ",", "-", ".",
     "/", ":", ";", "<", "=", ">", "?", "@", "[", "\\", "]", "^", "_", "{",
     "|", "}", "~"}

ispunct(c) == c \in PunctChars

isdigit(c) == c \in Digits

Range(s) == {s[i] : i \in 1..Len(s)}

Min(a, b) == IF a < b THEN a ELSE b

(***************************************************************************)
(* strip_punct: the characters of str that are not punctuation, in order.  *)
(***************************************************************************)
strip_punct(str) == SelectSeq(str, LAMBDA c : ~ispunct(c))

(***************************************************************************)
(* The long-option table: a sequence of struct option, the last of which   *)
(* is the sentinel (name NULL).  flag is TRUE for &flag, FALSE for NULL.   *)
(***************************************************************************)
Sentinel == [name |-> NULL, has_arg |-> 0, flag |-> FALSE, val |-> 0]

EmptyLongopts == <<Sentinel>>

\* Index (from 0, as in C) of the first entry of the table at or after k that
\* is the sentinel or is named name.
RECURSIVE longopt_find(_, _, _)
longopt_find(longopts, name, k) ==
    IF longopts[k + 1].name = NULL \/ longopts[k + 1].name = name THEN k
    ELSE longopt_find(longopts, name, k + 1)

\* A buggy add_longopt that never finds the existing entry and so always
\* appends.
add_longopt_append(longopts, name, has_arg) ==
    LET len == Len(name) IN
    IF len = 0 \/ name[1] = "-" \/ name[len] = ":"
    THEN [ret |-> 1, longopts |-> longopts]
    ELSE LET i == Len(longopts) - 1 IN
         [ret |-> 0,
          longopts |-> SubSeq(longopts, 1, i)
                       \o <<[name |-> name, has_arg |-> has_arg,
                             flag |-> TRUE, val |-> i + 1],
                            Sentinel>>]

(***************************************************************************)
(* add_longopt: rejects an empty name, a leading '-' and a trailing ':';   *)
(* updates has_arg of an entry of that name in place; otherwise writes the *)
(* new entry over the sentinel, with val = index + 1, and a new sentinel   *)
(* after it.                                                               *)
(***************************************************************************)
add_longopt(longopts, name, has_arg) ==
    LET len == Len(name) IN
    IF len = 0 \/ name[1] = "-" \/ name[len] = ":"
    THEN [ret |-> 1, longopts |-> longopts]
    ELSE LET i == longopt_find(longopts, name, 0) IN
         IF longopts[i + 1].name = name
         THEN [ret |-> 0,
               longopts |-> [longopts EXCEPT ![i + 1].has_arg = has_arg]]
         ELSE [ret |-> 0,
               longopts |-> SubSeq(longopts, 1, i)
                            \o <<[name |-> name, has_arg |-> has_arg,
                                  flag |-> TRUE, val |-> i + 1],
                                 Sentinel>>]

\* The delimiters of strtok(optspec2, " \r\n\t|,").
SpecDelims == {" ", "\r", "\n", "\t", "|", ","}

\* strtok over the whole spec: its maximal runs of non-delimiters, in order.
RECURSIVE strtok_all(_, _)
strtok_all(str, cur) ==
    IF str = <<>> THEN (IF cur = <<>> THEN <<>> ELSE <<cur>>)
    ELSE IF Head(str) \in SpecDelims
         THEN (IF cur = <<>> THEN <<>> ELSE <<cur>>) \o strtok_all(Tail(str), <<>>)
         ELSE strtok_all(Tail(str), Append(cur, Head(str)))

\* What one token of a long-option spec names: the token without a leading
\* "--" (tokens of 3 or more characters) and without its "::" or ":" suffix.
longopt_token(token) ==
    LET t1 == IF Len(token) >= 3 /\ token[1] = "-" /\ token[2] = "-"
              THEN SubSeq(token, 3, Len(token)) ELSE token
        len == Len(t1)
    IN  IF len >= 3 /\ t1[len - 1] = ":" /\ t1[len] = ":"
        THEN [name |-> SubSeq(t1, 1, len - 2), has_arg |-> optional_argument]
        ELSE IF len >= 2 /\ t1[len] = ":"
             THEN [name |-> SubSeq(t1, 1, len - 1), has_arg |-> required_argument]
             ELSE [name |-> t1, has_arg |-> no_argument]

\* A buggy loop body that registers the alias only when it is not empty.
add_longopts_token_skip_empty(acc, token, norm_punct) ==
    LET t == longopt_token(token)
        r1 == add_longopt(acc.longopts, t.name, t.has_arg)
        np == strip_punct(t.name)
        r2 == add_longopt(r1.longopts, np, t.has_arg)
    IN  IF Len(t.name) = 0 THEN acc
        ELSE IF r1.ret # 0 THEN [ret |-> acc.ret + 1, longopts |-> r1.longopts]
        ELSE IF norm_punct # 0 /\ Len(t.name) > Len(np) /\ Len(np) > 0
             THEN [ret |-> acc.ret + r2.ret, longopts |-> r2.longopts]
             ELSE [ret |-> acc.ret, longopts |-> r1.longopts]

(***************************************************************************)
(* The body of add_longopts' loop for one token: registers the name, and   *)
(* with norm_punct the punctuation-stripped name too when it is shorter;   *)
(* each failed add_longopt counts one in ret.                              *)
(***************************************************************************)
add_longopts_token(acc, token, norm_punct) ==
    LET t == longopt_token(token)
        r1 == add_longopt(acc.longopts, t.name, t.has_arg)
        np == strip_punct(t.name)
        r2 == add_longopt(r1.longopts, np, t.has_arg)
    IN  IF Len(t.name) = 0 THEN acc
        ELSE IF r1.ret # 0 THEN [ret |-> acc.ret + 1, longopts |-> r1.longopts]
        ELSE IF norm_punct # 0 /\ Len(t.name) > Len(np)
             THEN [ret |-> acc.ret + r2.ret, longopts |-> r2.longopts]
             ELSE [ret |-> acc.ret, longopts |-> r1.longopts]

RECURSIVE add_longopts_loop(_, _, _)
add_longopts_loop(acc, tokens, norm_punct) ==
    IF tokens = <<>> THEN acc
    ELSE add_longopts_loop(add_longopts_token(acc, Head(tokens), norm_punct),
                           Tail(tokens), norm_punct)

\* add_longopts: ret is the number of failed registrations.
add_longopts(longopts, optspec, norm_punct) ==
    add_longopts_loop([ret |-> 0, longopts |-> longopts],
                      strtok_all(optspec, <<>>), norm_punct)

(***************************************************************************)
(* Strings and the result buffer.                                          *)
(***************************************************************************)

\* strlen and the C string held at the start of a buffer.
CStr(buf) ==
    IF \E i \in 1..Len(buf) : buf[i] = NUL
    THEN SubSeq(buf, 1, (CHOOSE i \in 1..Len(buf) :
                            /\ buf[i] = NUL
                            /\ \A j \in 1..(i - 1) : buf[j] # NUL) - 1)
    ELSE buf

\* appstr(base, append): base reallocated to hold both strings and the NUL.
appstr(base, append) == CStr(base) \o append \o <<NUL>>

\* quotestring(s, QT_SINGLE): s for use between single quotes, every single
\* quote written as '\''.
RECURSIVE quotestring(_)
quotestring(s) ==
    IF s = <<>> THEN <<>>
    ELSE IF Len(s) = 1
    THEN (IF s[1] = "'" THEN <<"'", "\\", "'", "'">> ELSE s)
    ELSE quotestring(SubSeq(s, 1, Len(s) \div 2))
         \o quotestring(SubSeq(s, Len(s) \div 2 + 1, Len(s)))

\* What the format strings of bin_getoptx expand to; arg is the one value
\* the format takes (a string for %s, a one-character string for %c).
vsnprintf(fmt, arg) ==
    CASE fmt = " ':'" -> <<" ", "'", ":", "'">>
      [] fmt = " '?'" -> <<" ", "'", "?", "'">>
      [] fmt = " --%s" -> <<" ", "-", "-">> \o arg
      [] fmt = "%c" -> <<arg>>
      [] fmt = " -%c" -> <<" ", "-", arg>>
      [] fmt = " '%s'" -> <<" ", "'">> \o arg \o <<"'">>
      [] fmt = " --" -> <<" ", "-", "-">>

\* What a conversion reads from a va_list that an earlier vsnprintf has
\* already walked: an indeterminate value.
Indeterminate(fmt) == IF fmt \in {"%c", " -%c"} THEN "#" ELSE <<"#">>

\* The two ways a build carries on after va_list has been used once: the
\* callee worked on a copy ("by_value"), or it advanced the caller's list
\* ("consumed").
VaListOutcomes == {"by_value", "consumed"}

(***************************************************************************)
(* build_argstr: formats into a 32-byte buffer; an expansion of 32 or more *)
(* characters is formatted again, with the same va_list, into a buffer of  *)
(* `left` bytes, which holds left - 1 characters and the NUL.              *)
(***************************************************************************)
build_argstr(argstr, fmt, arg, va) ==
    LET full == vsnprintf(fmt, arg)
        left == Len(full)
        again == IF va = "by_value" THEN full
                 ELSE vsnprintf(fmt, Indeterminate(fmt))
        buf  == IF left >= buf_len
                THEN SubSeq(again, 1, Min(Len(again), left - 1))
                ELSE full
    IN  appstr(argstr, buf)

(***************************************************************************)
(* getopt_long(3), GNU libc, in its default (permuting) mode.  The state   *)
(* g of the scan: optind; nextchar, the index (from 1) in argv[optind] of  *)
(* the next short option to read, 0 when a new element is to be taken;     *)
(* first_nonopt and last_nonopt, the operands skipped so far; elem, the    *)
(* number of option elements taken so far.                                 *)
(***************************************************************************)
opt_EOF == "EOF"
opt_LONG == "LONG"

NONOPTION_P(argv, k) ==
    argv[k + 1] = <<>> \/ argv[k + 1][1] # "-" \/ Len(argv[k + 1]) = 1

\* The options argv[last..optind-1] moved before the operands
\* argv[first..last-1].
exchange(argv, first, last, optind) ==
    SubSeq(argv, 1, first) \o SubSeq(argv, last + 1, optind)
    \o SubSeq(argv, first + 1, last) \o SubSeq(argv, optind + 1, Len(argv))

RECURSIVE skip_nonoptions(_, _)
skip_nonoptions(argv, k) ==
    IF k < Len(argv) /\ NONOPTION_P(argv, k) THEN skip_nonoptions(argv, k + 1)
    ELSE k

\* The scan is to take a new element: the options passed since the last
\* call are moved before the operands skipped earlier.
getopt_permute(argv, g, f0, l0) ==
    IF f0 # l0 /\ l0 # g.optind
    THEN [argv |-> exchange(argv, f0, l0, g.optind),
          first_nonopt |-> f0 + (g.optind - l0)]
    ELSE [argv |-> argv,
          first_nonopt |-> IF l0 # g.optind THEN g.optind ELSE f0]

\* With the operands from optind on skipped (o1 is the next element that is
\* not one): "--" ends the options, and so does the end of argv.
getopt_separator(av, f1, o1) ==
    IF o1 # Len(av) /\ av[o1 + 1] = <<"-", "-">>
    THEN [argv |-> IF f1 # o1 THEN exchange(av, f1, o1, o1 + 1) ELSE av,
          first_nonopt |-> f1 + 1, last_nonopt |-> Len(av),
          optind |-> Len(av)]
    ELSE [argv |-> av, first_nonopt |-> f1, last_nonopt |-> o1, optind |-> o1]

getopt_at_end(a, argc) ==
    [argv |-> a.argv, end |-> a.optind = argc,
     optind |-> IF a.optind = argc /\ a.first_nonopt # a.last_nonopt
                THEN a.first_nonopt ELSE a.optind,
     first_nonopt |-> a.first_nonopt, last_nonopt |-> a.last_nonopt]

getopt_skip(p, optind) ==
    getopt_at_end(getopt_separator(p.argv, p.first_nonopt,
                                   skip_nonoptions(p.argv, optind)),
                  Len(p.argv))

\* Taking the next element of argv: permutes, skips operands, handles "--".
getopt_advance(argv, g) ==
    getopt_skip(getopt_permute(argv, g, Min(g.first_nonopt, g.optind),
                               Min(g.last_nonopt, g.optind)),
                g.optind)

IsPrefix(p, s) == Len(p) <= Len(s) /\ SubSeq(s, 1, Len(p)) = p

\* Index (from 1) of the first occurrence of c in s, 0 when there is none.
RECURSIVE strchr(_, _, _)
strchr(s, c, k) ==
    IF k > Len(s) THEN 0 ELSE IF s[k] = c THEN k ELSE strchr(s, c, k + 1)

getopt_result(opt, optarg, longind, g, argv, optind, nextchar) ==
    [opt |-> opt, optarg |-> optarg, longind |-> longind,
     g |-> [g EXCEPT !.optind = optind, !.nextchar = nextchar], argv |-> argv]

\* ':' or '?' for a missing argument, by the first character of optstring.
missing_code(optstring) ==
    IF optstring # <<>> /\ optstring[1] = ":" THEN ":" ELSE "?"

\* The entries (indices from 1) the name of a long option selects: the one
\* of that very name, else those it abbreviates.
long_candidates(longopts, nm) ==
    IF \E k \in 1..(Len(longopts) - 1) : longopts[k].name = nm
    THEN {k \in 1..(Len(longopts) - 1) : longopts[k].name = nm}
    ELSE {k \in 1..(Len(longopts) - 1) : IsPrefix(nm, longopts[k].name)}

\* The entry k has been found for "--<name>[=<value>]" (eq is the index of
\* '=' in word, 0 without); optind is past the element already.
long_found(argv, optstring, p, k, word, eq, g, oi) ==
    IF eq # 0
    THEN IF p.has_arg # 0
         THEN getopt_result(IF p.flag THEN opt_LONG ELSE "val",
                            SubSeq(word, eq + 1, Len(word)), k - 1, g, argv,
                            oi, 0)
         ELSE getopt_result("?", NULL, -1, g, argv, oi, 0)
    ELSE IF p.has_arg = 1
    THEN IF oi < Len(argv)
         THEN getopt_result(IF p.flag THEN opt_LONG ELSE "val", argv[oi + 1],
                            k - 1, g, argv, oi + 1, 0)
         ELSE getopt_result(missing_code(optstring), NULL, -1, g, argv, oi, 0)
    ELSE getopt_result(IF p.flag THEN opt_LONG ELSE "val", NULL, k - 1, g,
                       argv, oi, 0)

long_lookup(argv, optstring, longopts, g, word, eq, found) ==
    IF found = {}
       \/ \E x \in found, y \in found :
              \/ longopts[x].has_arg # longopts[y].has_arg
              \/ longopts[x].flag # longopts[y].flag
              \/ longopts[x].val # longopts[y].val
    THEN getopt_result("?", NULL, -1, g, argv, g.optind + 1, 0)
    ELSE long_found(argv, optstring,
                    longopts[CHOOSE x \in found : \A y \in found : x <= y],
                    CHOOSE x \in found : \A y \in found : x <= y,
                    word, eq, g, g.optind + 1)

long_named(argv, optstring, longopts, g, word, eq) ==
    long_lookup(argv, optstring, longopts, g, word, eq,
                long_candidates(longopts,
                    IF eq = 0 THEN word ELSE SubSeq(word, 1, eq - 1)))

long_word(argv, optstring, longopts, g, word) ==
    long_named(argv, optstring, longopts, g, word, strchr(word, "=", 1))

\* The element argv[optind] is "--<name>[=<value>]".
process_long_option(argv, optstring, longopts, g) ==
    long_word(argv, optstring, longopts, g,
              SubSeq(argv[g.optind + 1], 3, Len(argv[g.optind + 1])))

\* The option c, at index temp of optstring, read from word; o1 and n1 are
\* optind and nextchar once c is passed.
short_found(argv, optstring, g, word, c, temp, o1, n1) ==
    IF temp = 0 \/ c = ":" \/ c = ";"
    THEN getopt_result("?", NULL, -1, g, argv, o1, n1)
    ELSE IF ~(temp < Len(optstring) /\ optstring[temp + 1] = ":")
    THEN getopt_result(c, NULL, -1, g, argv, o1, n1)
    ELSE IF n1 # 0
    THEN getopt_result(c, SubSeq(word, n1, Len(word)), -1, g, argv, o1 + 1, 0)
    ELSE IF temp + 1 < Len(optstring) /\ optstring[temp + 2] = ":"
    THEN getopt_result(c, NULL, -1, g, argv, o1, 0)
    ELSE IF o1 = Len(argv)
    THEN getopt_result(missing_code(optstring), NULL, -1, g, argv, o1, 0)
    ELSE getopt_result(c, argv[o1 + 1], -1, g, argv, o1 + 1, 0)

short_char(argv, optstring, g, word, c, more) ==
    short_found(argv, optstring, g, word, c, strchr(optstring, c, 1),
                IF more THEN g.optind ELSE g.optind + 1,
                IF more THEN g.nextchar + 1 ELSE 0)

\* The short option at nextchar of argv[optind].
process_short_option(argv, optstring, g) ==
    short_char(argv, optstring, g, argv[g.optind + 1],
               argv[g.optind + 1][g.nextchar],
               g.nextchar < Len(argv[g.optind + 1]))

\* A new element of argv is taken; a is what getopt_advance found.
getopt_element(optstring, longopts, g, a) ==
    IF a.end
    THEN getopt_result(opt_EOF, NULL, -1,
                       [g EXCEPT !.first_nonopt = a.first_nonopt,
                                 !.last_nonopt = a.last_nonopt],
                       a.argv, a.optind, 0)
    ELSE IF a.argv[a.optind + 1][2] = "-"
    THEN process_long_option(a.argv, optstring, longopts,
             [g EXCEPT !.optind = a.optind, !.nextchar = 0,
                       !.first_nonopt = a.first_nonopt,
                       !.last_nonopt = a.last_nonopt, !.elem = g.elem + 1])
    ELSE process_short_option(a.argv, optstring,
             [g EXCEPT !.optind = a.optind, !.nextchar = 2,
                       !.first_nonopt = a.first_nonopt,
                       !.last_nonopt = a.last_nonopt, !.elem = g.elem + 1])

getopt_long(argv, optstring, longopts, g) ==
    IF g.nextchar # 0 THEN process_short_option(argv, optstring, g)
    ELSE getopt_element(optstring, longopts, g, getopt_advance(argv, g))

(***************************************************************************)
(* bin_getoptx: its own options.                                           *)
(***************************************************************************)

\* The locals the option loop sets, as they are before it.
OwnFlagsInit(opterr0) ==
    [ret |-> RET_OK, concat_nums |-> 0, err_elide |-> 0, err_abort |-> 0,
     norm_punct |-> 0, arrname |-> NULL, name |-> NULL, scaname |-> NULL,
     longoptsp |-> <<>>, opterr |-> opterr0, label |-> "none", argi |-> 1]

(***************************************************************************)
(* The loop over the words that start with '-': own_flags takes args[i],   *)
(* own_flags_word the character j of it.  argi is the index in args of     *)
(* *args when the loop is left; label names the error label jumped to.     *)
(***************************************************************************)
RECURSIVE own_flags(_, _, _), own_flags_word(_, _, _, _)
own_flags(args, i, st) ==
    IF i > Len(args) \/ args[i] = <<>> \/ args[i][1] # "-"
    THEN [st EXCEPT !.argi = i]
    ELSE IF Len(args[i]) = 1 \/ args[i] = <<"-", "-">>
         THEN [st EXCEPT !.argi = i + 1]
         ELSE own_flags_word(args, i, 2, st)

own_flags_word(args, i, j, st) ==
    IF j > Len(args[i]) THEN own_flags(args, i + 1, st)
    ELSE
    LET w == args[i]
        c == w[j]
        inline == j < Len(w)
        hasnext == i + 1 <= Len(args)
        value == IF inline THEN SubSeq(w, j + 1, Len(w)) ELSE args[i + 1]
        nexti == IF inline THEN i + 1 ELSE i + 2
        expected == [st EXCEPT !.ret = RET_BIN_ERR,
                               !.label = "internal_optarg_expected",
                               !.argi = i + 1]
    IN  CASE c = "A" ->
               IF inline \/ hasnext
               THEN own_flags(args, nexti, [st EXCEPT !.arrname = value])
               ELSE [expected EXCEPT !.arrname = NULL]
          [] c = "c" -> own_flags_word(args, i, j + 1, [st EXCEPT !.concat_nums = 1])
          [] c = "e" -> own_flags_word(args, i, j + 1, [st EXCEPT !.err_elide = 1])
          [] c = "E" -> own_flags_word(args, i, j + 1, [st EXCEPT !.err_abort = 1])
          [] c = "l" ->
               IF inline \/ hasnext
               THEN own_flags(args, nexti,
                        [st EXCEPT !.longoptsp = Append(st.longoptsp, value)])
               ELSE expected
          [] c = "n" ->
               IF inline \/ hasnext
               THEN own_flags(args, nexti, [st EXCEPT !.name = value])
               ELSE [expected EXCEPT !.name = NULL]
          [] c = "p" -> own_flags_word(args, i, j + 1, [st EXCEPT !.norm_punct = 1])
          [] c = "q" -> own_flags_word(args, i, j + 1, [st EXCEPT !.opterr = 0])
          [] c = "s" ->
               IF inline \/ hasnext
               THEN own_flags(args, nexti, [st EXCEPT !.scaname = value])
               ELSE [expected EXCEPT !.scaname = NULL]
          [] OTHER -> [st EXCEPT !.ret = RET_BIN_ERR,
                                 !.label = "internal_option_invalid",
                                 !.argi = i]

\* isident: a name of letters, digits and '_', all digits if it starts with
\* one.
IdentChars ==
    {"a", "b", "c", "d", "e", "f", "g", "h", "i", "j", "k", "l", "m", "n",
     "o", "p", "q", "r", "s", "t", "u", "v", "w", "x", "y", "z", "_"}
    \cup Digits

isident(s) ==
    /\ s # <<>>
    /\ \A i \in 1..Len(s) : s[i] \in IdentChars
    /\ s[1] \in Digits => \A i \in 1..Len(s) : s[i] \in Digits

(***************************************************************************)
(* The state.                                                              *)
(*   progname, opterr      process globals (__progname, getopt's opterr)   *)
(*   pc                    where the invocation stands: "idle" (none in    *)
(*                         progress), "longopts", "scan", "done",          *)
(*                         "returned", "crashed"                           *)
(*   args, argi            the command line, and the index in it of *args  *)
(*   ret ... longopts      the locals of bin_getoptx, under their names;   *)
(*                         lp is how far longoptsp has been advanced       *)
(*   g                     getopt's scan state (optind and its statics)    *)
(*   stdout, assigned      what the invocation wrote and bound             *)
(*   label, steps          history: the error label jumped to, and the     *)
(*                         classification steps taken                      *)
(***************************************************************************)
VARIABLES progname, opterr, pc, args, argi,
          ret, concat_nums, err_elide, err_abort, norm_punct,
          longoptsi, longoptsp, lp, arrname, name, scaname,
          shortopts, argstr, argv, longopts, old_progname,
          was_num, this_optind, last_num_optind, g,
          stdout, assigned, label, steps

globals == <<progname, opterr>>
flags == <<concat_nums, err_elide, err_abort, norm_punct, arrname, name,
           scaname, longoptsp>>
scanvars == <<was_num, this_optind, last_num_optind, g, steps>>
emitted == <<stdout, assigned>>
vars == <<progname, opterr, pc, args, argi,
          ret, concat_nums, err_elide, err_abort, norm_punct,
          longoptsi, longoptsp, lp, arrname, name, scaname,
          shortopts, argstr, argv, longopts, old_progname,
          was_num, this_optind, last_num_optind, g,
          stdout, assigned, label, steps>>

\* The name the process runs under, the name of the running script, and the
\* positional parameters of the shell.
ShellName == <<"z", "s", "h">>
scriptname == <<"r", "u", "n">>
pparams == << <<"-", "a">>, <<"p">> >>

NoAssignment == [kind |-> "none", name |-> NULL, value |-> <<>>]
ScanInit == [optind |-> 1, nextchar |-> 0, first_nonopt |-> 1,
             last_nonopt |-> 1, elem |-> 0]

\* No invocation in progress: the locals hold what their declarations give.
Locals0 ==
    /\ args = <<>> /\ argi = 1
    /\ ret = RET_OK /\ concat_nums = 0 /\ err_elide = 0 /\ err_abort = 0
    /\ norm_punct = 0 /\ longoptsi = 0 /\ longoptsp = <<>> /\ lp = 0
    /\ arrname = NULL /\ name = NULL /\ scaname = NULL
    /\ shortopts = NULL /\ argstr = <<NUL>> /\ argv = <<>>
    /\ longopts = EmptyLongopts /\ old_progname = NULL
    /\ was_num = 0 /\ this_optind = 1 /\ last_num_optind = -1
    /\ g = ScanInit
    /\ stdout = <<>> /\ assigned = NoAssignment
    /\ label = "none" /\ steps = <<>>

Init ==
    /\ progname = ShellName /\ opterr = 1
    /\ pc = "idle"
    /\ Locals0

\* Lines 314-431: the declarations and the loop over getoptx's own options.
Invoke(a) ==
    /\ pc = "idle"
    /\ \E st \in {own_flags(a, 1, OwnFlagsInit(opterr))} :
       /\ args' = a
       /\ ret' = st.ret
       /\ concat_nums' = st.concat_nums /\ err_elide' = st.err_elide
       /\ err_abort' = st.err_abort /\ norm_punct' = st.norm_punct
       /\ arrname' = st.arrname /\ name' = st.name /\ scaname' = st.scaname
       /\ longoptsp' = st.longoptsp /\ longoptsi' = Len(st.longoptsp)
       /\ argi' = st.argi /\ lp' = 0
       /\ opterr' = st.opterr
       /\ label' = st.label
       /\ pc' = IF st.label = "none" THEN "longopts" ELSE "done"
    /\ old_progname' = progname
    /\ argstr' = <<NUL>> /\ longopts' = EmptyLongopts
    /\ UNCHANGED <<progname, shortopts, argv, scanvars, emitted>>

\* Lines 434-440, one turn of the loop: the next -l spec is added.
AddLongopts ==
    /\ pc = "longopts"
    /\ longoptsi - 1 >= 0
    /\ \E r \in {add_longopts(longopts, longoptsp[lp + 1], norm_punct)} :
       /\ longopts' = r.longopts
       /\ longoptsi' = longoptsi - 1
       /\ IF r.ret # 0
          THEN /\ ret' = RET_BIN_ERR
               /\ label' = "internal_longopt_invalid"
               /\ pc' = "done"
               /\ lp' = lp
          ELSE /\ lp' = lp + 1
               /\ UNCHANGED <<ret, label, pc>>
    /\ UNCHANGED <<globals, args, argi, flags, shortopts, argstr,
                   argv, old_progname, scanvars, emitted>>

\* Line 73: __progname = name.
set_progname(nm) == nm

\* Lines 448-456: the short-option spec handed to getopt_long.
quiet_shortopts(spec, oe) ==
    IF oe = 0 /\ (spec = <<>> \/ spec[1] # ":") THEN <<":">> \o spec ELSE spec

\* Lines 460-462: the digits are appended when the spec holds no digit.
numeric_shortopts(spec, cn) ==
    IF cn # 0 /\ Range(spec) \cap Digits = {} THEN spec \o DigitSeq ELSE spec

\* Lines 434 (the loop is left), 442-481: the operand <shortopts>, the
\* program name and the argument vector.
Setup ==
    /\ pc = "longopts"
    /\ longoptsi - 1 < 0
    /\ longoptsi' = longoptsi - 1
    /\ IF argi > Len(args)
       THEN /\ ret' = RET_BIN_ERR
            /\ label' = "internal_operand_expected"
            /\ pc' = "done"
            /\ UNCHANGED <<globals, name, shortopts, argv, this_optind, g>>
       ELSE LET spec == args[argi]
                nm == IF name = NULL THEN scriptname ELSE name
                argp == IF argi < Len(args)
                        THEN SubSeq(args, argi + 1, Len(args)) ELSE pparams
            IN  /\ shortopts' = numeric_shortopts(quiet_shortopts(spec, opterr),
                                                  concat_nums)
                /\ opterr' = IF spec # <<>> /\ spec[1] = ":" THEN 0 ELSE opterr
                /\ name' = nm
                /\ progname' = set_progname(nm)
                /\ argv' = <<nm>> \o argp
                /\ this_optind' = 1
                /\ g' = ScanInit
                /\ pc' = "scan"
                /\ UNCHANGED <<ret, label>>
    /\ UNCHANGED <<args, argi, concat_nums, err_elide, err_abort,
                   norm_punct, arrname, scaname, longoptsp, lp, argstr,
                   longopts, old_progname, was_num, last_num_optind, steps,
                   emitted>>

\* Lines 496-500: this_optind moved to the next element that starts with
\* '-'; -1 when the loop runs off the end of argv.
RECURSIVE scan_forward(_, _)
scan_forward(av, k) ==
    IF k >= Len(av) THEN -1
    ELSE IF av[k + 1] # <<>> /\ av[k + 1][1] = "-" THEN k
         ELSE scan_forward(av, k + 1)

\* A buggy test that forgets the position.
same_num_run_any(wn, last, this) == wn # 0

\* Line 538: the digit continues the numeric token being built.
same_num_run(wn, last, this) == wn # 0 /\ last = this

\* Lines 502-551: what one classification step appends to argstr and sets.
\* r is what getopt_long returned, ti the value of this_optind.
render_step(r, ti, va) ==
    LET opt == r.opt
        lname == longopts[r.longind + 1].name
        digit == concat_nums # 0 /\ isdigit(opt)
        glue == digit /\ same_num_run(was_num, last_num_optind, ti)
    IN  CASE opt = ":" ->
               [argstr |-> IF err_elide = 0
                           THEN build_argstr(argstr, " ':'", <<>>, va)
                           ELSE argstr,
                ret |-> RET_LIB_ERR, abort |-> err_abort # 0,
                was_num |-> was_num, last_num_optind |-> last_num_optind,
                kind |-> "missing", tok |-> <<>>, glued |-> FALSE]
          [] opt = "?" ->
               [argstr |-> IF err_elide = 0
                           THEN build_argstr(argstr, " '?'", <<>>, va)
                           ELSE argstr,
                ret |-> RET_LIB_ERR, abort |-> err_abort # 0,
                was_num |-> was_num, last_num_optind |-> last_num_optind,
                kind |-> "unknown", tok |-> <<>>, glued |-> FALSE]
          [] opt = opt_LONG ->
               [argstr |-> build_argstr(argstr, " --%s",
                               IF norm_punct # 0 THEN strip_punct(lname)
                               ELSE lname, va),
                ret |-> ret, abort |-> FALSE,
                was_num |-> was_num, last_num_optind |-> last_num_optind,
                kind |-> "long", tok |-> lname, glued |-> FALSE]
          [] OTHER ->
               [argstr |-> build_argstr(argstr,
                               IF glue THEN "%c" ELSE " -%c", opt, va),
                ret |-> ret, abort |-> FALSE,
                was_num |-> IF digit THEN 1 ELSE 0,
                last_num_optind |-> IF digit THEN ti ELSE last_num_optind,
                kind |-> "short", tok |-> <<opt>>, glued |-> glue]

\* Lines 496-500.
resync_optind(av, optind, this) ==
    IF concat_nums # 0 /\ optind # this THEN scan_forward(av, this) ELSE this

\* Lines 484-557, one turn of the loop with an option or an error returned.
Classify ==
    /\ pc = "scan"
    /\ \E r \in {getopt_long(argv, shortopts, longopts, g)} :
       \E ti \in {resync_optind(r.argv, r.g.optind, this_optind)} :
       /\ r.opt # opt_EOF
       /\ g' = r.g /\ argv' = r.argv
       /\ IF ti < 0
          THEN /\ pc' = "crashed"
               /\ UNCHANGED <<ret, argstr, was_num, this_optind,
                              last_num_optind, steps>>
          ELSE \E va \in VaListOutcomes :
               \E s \in {render_step(r, ti, va)} :
               /\ ret' = s.ret
               /\ was_num' = s.was_num
               /\ last_num_optind' = s.last_num_optind
               /\ steps' = Append(steps, [kind |-> s.kind, tok |-> s.tok,
                                          glued |-> s.glued,
                                          elem |-> r.g.elem,
                                          optarg |-> r.optarg])
               /\ IF s.abort
                  THEN /\ pc' = "done"
                       /\ this_optind' = ti
                       /\ argstr' = s.argstr
                  ELSE /\ pc' = "scan"
                       /\ this_optind' = r.g.optind
                       /\ argstr' =
                            IF r.optarg # NULL
                            THEN build_argstr(s.argstr, " '%s'",
                                              quotestring(r.optarg), va)
                            ELSE s.argstr
    /\ UNCHANGED <<globals, args, argi, flags, longoptsi, lp,
                   shortopts, longopts, old_progname, emitted, label>>

\* Lines 562-564: the operands argv[k .. argc-1], each quoted.
RECURSIVE render_operands(_, _, _, _)
render_operands(buf, av, k, va) ==
    IF k >= Len(av) THEN buf
    ELSE render_operands(build_argstr(buf, " '%s'", quotestring(av[k + 1]), va),
                         av, k + 1, va)

\* Lines 484-487, 560-566: getopt_long returns -1; the separator and the
\* operands are rendered.
EndOfOptions ==
    /\ pc = "scan"
    /\ \E r \in {getopt_long(argv, shortopts, longopts, g)} :
       /\ r.opt = opt_EOF
       /\ argv' = r.argv
       /\ g' = [r.g EXCEPT !.optind = Len(r.argv)]
       /\ \E va \in VaListOutcomes :
              argstr' = render_operands(build_argstr(argstr, " --", <<>>, va),
                                        r.argv, r.g.optind, va)
    /\ pc' = "done"
    /\ UNCHANGED <<globals, args, argi, ret, flags, longoptsi, lp,
                   shortopts, longopts, old_progname, was_num, this_optind,
                   last_num_optind, steps, emitted, label>>

\* Lines 586-588: the result is cut at its first byte.
discard_result(buf, abort, rc) ==
    IF buf[1] # NUL /\ abort # 0 /\ rc # 0 THEN [buf EXCEPT ![1] = NUL] ELSE buf

\* What a read past the end of a one-byte buffer can find.
OutOfBounds == {<<>>, <<"#">>}

\* The string at argstr + 1 (lines 605, 618, 624).
argstr_plus_1(buf) ==
    IF Len(buf) >= 2 THEN {CStr(Tail(buf))} ELSE OutOfBounds

\* A buggy assignment that keeps the code of a parse error.
assign_ret_keep(rc, ok) == IF ok \/ rc # RET_OK THEN rc ELSE RET_BIN_ERR

\* Lines 608-610 and 618-620: a failed assignment returns 2.
assign_ret(rc, ok) == IF ok THEN rc ELSE RET_BIN_ERR

\* A buggy exit that leaves the program name as it is.
progname_kept(old, cur) == cur

\* Line 627: the program name is set back.
progname_at_exit(old, cur) == set_progname(old)

\* Lines 600-605: tmp is sized from strlen(argstr), and sprintf writes the
\* string at argstr + 1 into it; a string longer than strlen(argstr) + 1
\* runs past the end of tmp.
tmp_overflows(buf, text) == Len(text) > Len(CStr(buf)) + 1

\* What writing past the end of tmp can do: nothing that shows, or the end
\* of the process.
HeapOutcomes(buf, text) ==
    IF tmp_overflows(buf, text) THEN {"unharmed", "crash"} ELSE {"unharmed"}

\* Lines 584-645: the result is assigned or printed; ok is whether the
\* shell's assignment (bin_eval, setsparam) succeeds.
Done ==
    /\ pc = "done"
    /\ \E buf \in {discard_result(argstr, err_abort, ret)} :
       /\ argstr' = buf
       /\ \E text \in argstr_plus_1(buf), ok \in BOOLEAN :
            IF arrname # NULL
            THEN IF ~isident(arrname)
                 THEN /\ ret' = RET_BIN_ERR
                      /\ progname' = progname_at_exit(old_progname, progname)
                      /\ pc' = "returned"
                      /\ UNCHANGED <<stdout, assigned>>
                 ELSE \E heap \in HeapOutcomes(buf, text) :
                      IF heap = "crash"
                      THEN /\ pc' = "crashed"
                           /\ UNCHANGED <<ret, progname, stdout, assigned>>
                      ELSE /\ ret' = assign_ret(ret, ok)
                           /\ assigned' = IF ok
                                          THEN [kind |-> "array",
                                                name |-> arrname,
                                                value |-> text]
                                          ELSE NoAssignment
                           /\ progname' = progname_at_exit(old_progname,
                                                           progname)
                           /\ pc' = "returned"
                           /\ UNCHANGED stdout
            ELSE IF scaname # NULL
            THEN /\ ret' = assign_ret(ret, ok)
                 /\ assigned' = IF ok
                                THEN [kind |-> "scalar", name |-> scaname,
                                      value |-> text]
                                ELSE NoAssignment
                 /\ progname' = progname_at_exit(old_progname, progname)
                 /\ pc' = "returned"
                 /\ UNCHANGED stdout
            ELSE /\ stdout' = IF buf[1] # NUL THEN <<text \o <<"\n">>>>
                              ELSE stdout
                 /\ progname' = progname_at_exit(old_progname, progname)
                 /\ pc' = "returned"
                 /\ UNCHANGED <<ret, assigned>>
    /\ UNCHANGED <<opterr, args, argi, flags, longoptsi, lp, shortopts, argv,
                   longopts, old_progname, scanvars, label>>

\* The builtin has returned ret; its locals are gone.
Return ==
    /\ pc = "returned"
    /\ pc' = "idle"
    /\ args' = <<>> /\ argi' = 1
    /\ ret' = RET_OK /\ concat_nums' = 0 /\ err_elide' = 0 /\ err_abort' = 0
    /\ norm_punct' = 0 /\ longoptsi' = 0 /\ longoptsp' = <<>> /\ lp' = 0
    /\ arrname' = NULL /\ name' = NULL /\ scaname' = NULL
    /\ shortopts' = NULL /\ argstr' = <<NUL>> /\ argv' = <<>>
    /\ longopts' = EmptyLongopts /\ old_progname' = NULL
    /\ was_num' = 0 /\ this_optind' = 1 /\ last_num_optind' = -1
    /\ g' = ScanInit
    /\ stdout' = <<>> /\ assigned' = NoAssignment
    /\ label' = "none" /\ steps' = <<>>
    /\ UNCHANGED globals

(***************************************************************************)
(* Command lines.                                                          *)
(***************************************************************************)
MaxOwn == 2

\* Every concatenation of at most n of the word groups gs.
RECURSIVE Prefixes(_, _)
Prefixes(gs, n) ==
    IF n = 0 THEN {<<>>}
    ELSE LET ps == Prefixes(gs, n - 1) IN
         ps \cup {p \o x : p \in ps, x \in gs}

\* getoptx's own options, each with the argument it takes (the last one
\* without).
OwnGroups ==
    { << <<"-", "e">> >>, << <<"-", "E">> >>, << <<"-", "q">> >>,
      << <<"-", "s">>, <<"v">> >>,
      << <<"-", "A">>, <<"r">> >>,
      << <<"-", "A">>, <<"a", "+">> >>,
      << <<"-", "n">>, <<"n", "m">> >>,
      << <<"-", "x">> >>,
      << <<"-", "l">>, <<"l", "o", ":">> >>,
      << <<"-", "l">>, <<"-", "x">> >>,
      << <<"-", "s">> >> }

\* <shortopts> and the arguments to parse; the first has no <shortopts>.
MainInputs ==
    { <<>>,
      << <<"a", "b", ":">> >>,
      << <<"a", "b", ":">>, <<"-", "a">> >>,
      << <<"a", "b", ":">>, <<"-", "z">> >>,
      << <<"a", "b", ":">>, <<"-", "a">>, <<"-", "z">>, <<"-", "a">> >>,
      << <<"a", "b", ":">>, <<"-", "a">>, <<"-", "b">> >>,
      << <<"a", "b", ":">>, <<"-", "a">>, <<"-", "b">>, <<"v">>, <<"x">> >>,
      << <<"a", "b", ":">>, <<"-", "-", "l", "o">>, <<"w">>, <<"-", "-", "n", "o">> >>,
      << <<":", "a", "b", ":">>, <<"-", "b">> >> }

MainCmds == {p \o i : p \in Prefixes(OwnGroups, MaxOwn), i \in MainInputs}

MaxArgs == 3

\* Every sequence of at most n elements of the set ws.
RECURSIVE SeqsUpTo(_, _)
SeqsUpTo(ws, n) ==
    IF n = 0 THEN {<<>>}
    ELSE LET ps == SeqsUpTo(ws, n - 1) IN
         ps \cup {Append(p, x) : p \in ps, x \in ws}

\* Numeric options: own options, <shortopts>, and arguments.
NumOwn ==
    { <<>>, << <<"-", "c">> >>, << <<"-", "c", "e">> >>,
      << <<"-", "c">>, <<"-", "l">>, <<"l", "o">> >> }

NumShortopts == { <<"a">>, <<"1">> }

NumTokens ==
    { <<"-", "1">>, <<"-", "2">>, <<"-", "3">>, <<"-", "1", "2", "3">>,
      <<"-", "1", "z", "2">>, <<"x">> }

NumExtra ==
    { << <<"-", "1", "a", "2">> >>,
      << <<"-", "1">>, <<"-", "-", "l", "o">>, <<"-", "2">> >>,
      << <<"-", "1">>, <<"-", "a">>, <<"-", "2">> >> }

NumCmds ==
    {o \o <<so>> \o i : o \in NumOwn, so \in NumShortopts,
                        i \in SeqsUpTo(NumTokens, MaxArgs) \cup NumExtra}

MaxTokens == 3

\* Long-option specs: the tokens of -l, joined by commas.
SpecTokens ==
    { <<"f", "o">>, <<"f", "o", ":">>, <<"f", "o", ":", ":">>,
      <<"-", "-", "f", "o">>, <<"f", "-", "o", ":">>, <<"+">>, <<"b">>,
      <<"-", "x">> }

RECURSIVE Join(_)
Join(ts) ==
    IF ts = <<>> THEN <<>>
    ELSE IF Len(ts) = 1 THEN ts[1]
    ELSE ts[1] \o <<",">> \o Join(Tail(ts))

\* The tokens ts given in one -l, or the first in one -l and the others in
\* a second.
SpecOptions(ts) ==
    IF ts = <<>> THEN { <<>> }
    ELSE { << <<"-", "l">>, Join(ts) >> }
         \cup IF Len(ts) = 1 THEN {}
              ELSE { << <<"-", "l">>, ts[1], <<"-", "l">>, Join(Tail(ts)) >> }

TableCmds ==
    {pf \o o \o << <<>>, <<"-", "-", "f", "o">>, <<"v">> >> :
        pf \in { <<>>, << <<"-", "p">> >> },
        o \in UNION {SpecOptions(ts) : ts \in SeqsUpTo(SpecTokens, MaxTokens)}}

\* Values to quote: one that just fits build_argstr's first buffer once
\* formatted as " '%s'", one that just does not.
Fits == [i \in 1..(buf_len - 4) |-> "y"]
Overflows == [i \in 1..(buf_len - 3) |-> "y"]

QuoteValues ==
    { <<"x">>, <<"a", " ", "b">>, <<"i", "t", "'", "s">>, <<>>, Fits, Overflows }

QuoteOwn ==
    { <<>>, << <<"-", "s">>, <<"v">> >>,
      << <<"-", "l">>, <<"l", "o", ":">> >> }

QuoteCmds ==
    {o \o << <<"a", ":">> >> \o i :
        o \in QuoteOwn,
        i \in {<< <<"-", "a">>, v, w >> : v \in QuoteValues, w \in QuoteValues}
              \cup {<< <<"-", "-", "l", "o">>, v >> : v \in QuoteValues}}

Steps == AddLongopts \/ Setup \/ Classify \/ EndOfOptions \/ Done \/ Return

Next == (\E a \in MainCmds : Invoke(a)) \/ Steps

Spec == Init /\ [][Next]_vars

NextNum == (\E a \in NumCmds : Invoke(a)) \/ Steps

SpecNum == Init /\ [][NextNum]_vars

NextTable == (\E a \in TableCmds : Invoke(a)) \/ Steps

SpecTable == Init /\ [][NextTable]_vars

NextQuote == (\E a \in QuoteCmds : Invoke(a)) \/ Steps

SpecQuote == Init /\ [][NextQuote]_vars

(***************************************************************************)
(* What the properties speak of.                                           *)
(***************************************************************************)

\* The arguments given after <shortopts> are exactly in.
InputIs(in) ==
    /\ label = "none" /\ argi <= Len(args)
    /\ SubSeq(args, argi + 1, Len(args)) = in

\* A classification step returned unknown-option or missing-argument.
ParseError == \E i \in 1..Len(steps) : steps[i].kind \in {"missing", "unknown"}

\* -A or -s named a target and nothing was bound: the target is no
\* identifier, or the shell's assignment failed.
AssignmentFailed ==
    (arrname # NULL \/ scaname # NULL) /\ assigned.kind = "none"

UsageError == label # "none" \/ AssignmentFailed

\* Shell word splitting and quote removal: blanks separate words, single
\* quotes keep everything up to the next one, a backslash outside quotes
\* keeps the next character.  A quote left open yields the word Unclosed.
Unclosed == <<"unclosed quote">>

RECURSIVE ShellWords(_, _, _, _, _)
ShellWords(str, i, words, cur, mode) ==
    CASE i > Len(str) ->
           IF mode = "quoted" THEN words \o <<cur, Unclosed>>
           ELSE IF mode = "word" THEN Append(words, cur) ELSE words
      [] i <= Len(str) /\ mode = "quoted" /\ str[i] = "'" ->
           ShellWords(str, i + 1, words, cur, "word")
      [] i <= Len(str) /\ mode = "quoted" /\ str[i] # "'" ->
           ShellWords(str, i + 1, words, Append(cur, str[i]), "quoted")
      [] i <= Len(str) /\ mode # "quoted" /\ str[i] = "'" ->
           ShellWords(str, i + 1, words, cur, "quoted")
      [] i < Len(str) /\ mode # "quoted" /\ str[i] = "\\" ->
           ShellWords(str, i + 2, words, Append(cur, str[i + 1]), "word")
      [] i <= Len(str) /\ mode = "word" /\ str[i] = " " ->
           ShellWords(str, i + 1, Append(words, cur), <<>>, "none")
      [] i <= Len(str) /\ mode = "none" /\ str[i] = " " ->
           ShellWords(str, i + 1, words, <<>>, "none")
      [] OTHER ->
           ShellWords(str, i + 1, words, Append(cur, str[i]), "word")

SplitWords(str) == ShellWords(str, 1, <<>>, <<>>, "none")

\* The result as emitted: the line printed without its newline, or the
\* value bound; Nothing when neither happened.
Nothing == <<"nothing emitted">>

Emitted ==
    IF assigned.kind # "none" THEN assigned.value
    ELSE IF stdout # <<>> THEN SubSeq(stdout[1], 1, Len(stdout[1]) - 1)
    ELSE Nothing

(***************************************************************************)
(* C1.  The return code is decided by the error class: 2 when a usage      *)
(* error occurred (an error label was jumped to, the -A target is no       *)
(* identifier, or the assignment failed), whatever the parse; otherwise 1  *)
(* when a classification step returned unknown-option or missing-argument  *)
(* (elided or not); otherwise 0.                                           *)
(***************************************************************************)
C1_ReturnCode ==
    pc = "returned" =>
        ret = IF UsageError THEN RET_BIN_ERR
              ELSE IF ParseError THEN RET_LIB_ERR ELSE RET_OK

\* An invocation with a parse error whose assignment then failed.
C1_Witness ==
    /\ pc = "returned" /\ ParseError /\ label = "none" /\ AssignmentFailed
    /\ scaname # NULL /\ arrname = NULL /\ ret = RET_BIN_ERR

(***************************************************************************)
(* C2.  Abort mode: with -E, classification stops at the step that         *)
(* returned unknown-option or missing-argument, and the result emitted is  *)
(* empty for every destination: nothing is printed, and the value bound    *)
(* with -s or -A is empty.                                                 *)
(***************************************************************************)
C2_AbortEmitsNothing ==
    (pc = "returned" /\ err_abort # 0 /\ ParseError /\ label = "none") =>
        /\ \A i \in 1..(Len(steps) - 1) :
               steps[i].kind \notin {"missing", "unknown"}
        /\ stdout = <<>>
        /\ assigned.kind = "scalar" => assigned.value = <<>>
        /\ assigned.kind = "array" => SplitWords(assigned.value) = <<>>

(***************************************************************************)
(* C3.  An invocation that ends in a usage error found before              *)
(* classification renders and emits no result: nothing is printed and a    *)
(* -A or -s target named earlier is not assigned.                          *)
(***************************************************************************)
C3_UsageErrorEmitsNothing ==
    (pc = "returned" /\ label # "none") =>
        /\ stdout = <<>>
        /\ assigned.kind = "none"

(***************************************************************************)
(* C9.  When an invocation has returned, on every exit path, the program   *)
(* name is what it was when the invocation began; so between invocations   *)
(* it is always the name the process started under.                        *)
(***************************************************************************)
C9_PrognameRestored ==
    /\ pc = "returned" => progname = old_progname
    /\ pc = "idle" => progname = ShellName

\* An invocation with -n that ran the scan and ended with a parse error.
C9_Witness ==
    /\ pc = "returned" /\ name = <<"n", "m">> /\ label = "none"
    /\ ParseError /\ progname = ShellName

\* The words the classification stands for: each option as its token, a
\* digit taken into a numeric token joined to the word before it, each
\* captured argument, then "--" and the operands left in argv.
RECURSIVE StepWords(_, _)
StepWords(ss, acc) ==
    IF ss = <<>> THEN acc
    ELSE LET st == Head(ss)
             word == IF st.kind = "long"
                     THEN <<"-", "-">> \o (IF norm_punct # 0
                                           THEN strip_punct(st.tok)
                                           ELSE st.tok)
                     ELSE <<"-">> \o st.tok
             acc1 == IF st.glued /\ acc # <<>>
                     THEN [acc EXCEPT ![Len(acc)] = acc[Len(acc)] \o st.tok]
                     ELSE Append(acc, word)
         IN  StepWords(Tail(ss),
                       IF st.optarg # NULL THEN Append(acc1, st.optarg)
                       ELSE acc1)

Operands ==
    IF g.first_nonopt # g.last_nonopt
    THEN SubSeq(argv, g.first_nonopt + 1, Len(argv)) ELSE <<>>

ExpectedWords == StepWords(steps, <<>>) \o << <<"-", "-">> >> \o Operands

(***************************************************************************)
(* C4.  Round trip: when classification had no error, splitting the        *)
(* emitted result into shell words gives exactly the option tokens, each   *)
(* captured argument, "--" and each operand, whole, for values of any      *)
(* length and content; every value is rendered with both its quotes.       *)
(***************************************************************************)
C4_RoundTrip ==
    (pc = "returned" /\ label = "none" /\ ~ParseError /\ Emitted # Nothing) =>
        SplitWords(Emitted) = ExpectedWords

(***************************************************************************)
(* C5.  As claimed: with -c, the arguments -1 -2 -3 are rendered as the    *)
(* single token -123.                                                      *)
(***************************************************************************)
C5_SeparateDigitsMerged ==
    (pc = "returned" /\ concat_nums # 0 /\ ~UsageError
        /\ InputIs(<< <<"-", "1">>, <<"-", "2">>, <<"-", "3">> >>)) =>
        stdout = << <<"-", "1", "2", "3", " ", "-", "-", "\n">> >>

(***************************************************************************)
(* C5, as amended.  With -c, digits are joined only within one element of  *)
(* the argument vector: of the arguments -1 -2 -3 no digit is joined to    *)
(* the token before it, and when all three are recognised the result is    *)
(* -1 -2 -3 --; the one argument -123, its digits recognised, gives the    *)
(* single token -123.                                                      *)
(***************************************************************************)
C5_DigitsMergedWithinElement ==
    (pc = "returned" /\ concat_nums # 0 /\ ~UsageError) =>
        /\ InputIs(<< <<"-", "1">>, <<"-", "2">>, <<"-", "3">> >>) =>
               /\ \A i \in 1..Len(steps) : ~steps[i].glued
               /\ ~ParseError =>
                      stdout = << <<"-", "1", " ", "-", "2", " ", "-", "3",
                                    " ", "-", "-", "\n">> >>
        /\ (InputIs(<< <<"-", "1", "2", "3">> >>) /\ ~ParseError) =>
               stdout = << <<"-", "1", "2", "3", " ", "-", "-", "\n">> >>

\* -1 -2 -3 under -c, all recognised, printed as three tokens.
C5_Witness ==
    /\ pc = "returned" /\ concat_nums # 0 /\ ~UsageError /\ ~ParseError
    /\ InputIs(<< <<"-", "1">>, <<"-", "2">>, <<"-", "3">> >>)
    /\ Len(steps) = 3
    /\ stdout # <<>>

(***************************************************************************)
(* C6.  With -c every digit 0-9 is a short option of the scan, whatever    *)
(* <shortopts> holds: the spec handed to the classifier holds all ten.     *)
(***************************************************************************)
C6_AllDigitsRecognised ==
    (pc \in {"scan", "done", "returned"} /\ concat_nums # 0
        /\ shortopts # NULL) => Digits \subseteq Range(shortopts)

(***************************************************************************)
(* C10.  With -c a digit is appended directly to the output only if the    *)
(* classification step just before it was a digit short option of the same *)
(* element of the argument vector; an operand, another option or a parse   *)
(* error between two digits keeps them apart.                              *)
(***************************************************************************)
C10_GlueOnlyAfterDigit ==
    \A i \in 1..Len(steps) :
        steps[i].glued =>
            /\ i > 1
            /\ steps[i - 1].kind = "short"
            /\ isdigit(steps[i - 1].tok[1])
            /\ steps[i - 1].elem = steps[i].elem

(***************************************************************************)
(* Long-option specs as the claims read them: a token is a name, after an  *)
(* optional "--" and before an optional ":" or "::".                       *)
(***************************************************************************)
ClaimBare(t) ==
    IF Len(t) > 2 /\ SubSeq(t, 1, 2) = <<"-", "-">> THEN SubSeq(t, 3, Len(t))
    ELSE t

ClaimSuffix(t) ==
    IF Len(t) > 2 /\ SubSeq(t, Len(t) - 1, Len(t)) = <<":", ":">> THEN 2
    ELSE IF Len(t) > 1 /\ t[Len(t)] = ":" THEN 1 ELSE 0

ClaimName(t) ==
    SubSeq(ClaimBare(t), 1, Len(ClaimBare(t)) - ClaimSuffix(ClaimBare(t)))

\* None, Required, Optional.
ClaimRequirement(t) ==
    IF ClaimSuffix(ClaimBare(t)) = 2 THEN optional_argument
    ELSE IF ClaimSuffix(ClaimBare(t)) = 1 THEN required_argument
    ELSE no_argument

ValidName(n) == n # <<>> /\ n[1] # "-" /\ n[Len(n)] # ":"

\* How many of the -l specs add_longopts has been called on.
Processed ==
    IF longoptsi < 0 THEN Len(longoptsp) ELSE Len(longoptsp) - longoptsi

RECURSIVE TokensOf(_)
TokensOf(specs) ==
    IF specs = <<>> THEN <<>>
    ELSE strtok_all(Head(specs), <<>>) \o TokensOf(Tail(specs))

\* The names registered, in order: each valid name, and with -p its
\* punctuation-stripped alias when that differs and is not empty.
RECURSIVE Registrations(_)
Registrations(tokens) ==
    IF tokens = <<>> THEN <<>>
    ELSE LET n == ClaimName(Head(tokens))
             r == ClaimRequirement(Head(tokens))
             a == SelectSeq(n, LAMBDA c : c \notin PunctChars)
         IN  (IF ~ValidName(n) THEN <<>>
              ELSE IF norm_punct # 0 /\ a # n /\ a # <<>>
              THEN <<[name |-> n, req |-> r], [name |-> a, req |-> r]>>
              ELSE <<[name |-> n, req |-> r]>>)
             \o Registrations(Tail(tokens))

Registered == Registrations(TokensOf(SubSeq(longoptsp, 1, Processed)))

FirstOf(rs, n) == CHOOSE i \in 1..Len(rs) :
                      rs[i].name = n /\ \A j \in 1..(i - 1) : rs[j].name # n

LastOf(rs, n) == CHOOSE i \in 1..Len(rs) :
                     rs[i].name = n /\ \A j \in (i + 1)..Len(rs) : rs[j].name # n

TableMatches(t, rs) ==
    /\ t[Len(t)] = Sentinel
    /\ \A k \in 1..(Len(t) - 1) : t[k].name # NULL /\ t[k].flag
    /\ {t[k].name : k \in 1..(Len(t) - 1)} = {rs[i].name : i \in 1..Len(rs)}
    /\ Len(t) - 1 = Cardinality({rs[i].name : i \in 1..Len(rs)})
    /\ \A k \in 1..(Len(t) - 1) : t[k].has_arg = rs[LastOf(rs, t[k].name)].req
    /\ \A k, l \in 1..(Len(t) - 1) :
           k < l => /\ t[k].name # t[l].name
                    /\ t[k].val # t[l].val
                    /\ FirstOf(rs, t[k].name) < FirstOf(rs, t[l].name)

(***************************************************************************)
(* C8.  After any sequence of spec tokens has been processed, over all -l  *)
(* specs in command-line order, the table holds one entry for each         *)
(* distinct name registered (with -p the aliases are names registered      *)
(* too), in the order of first registration, then the sentinel; each       *)
(* entry requires what the last token naming it said; naming a name again  *)
(* adds no entry; the numeric tags all differ.                             *)
(***************************************************************************)
C8_TableInvariant == TableMatches(longopts, Registered)

\* fo, b, fo:: : two entries, fo now with an optional argument.
C8_Witness ==
    /\ pc = "scan" /\ norm_punct = 0
    /\ Len(Registered) = 3 /\ Registered[1].req = no_argument
    /\ Len(longopts) = 3
    /\ longopts[1].name = <<"f", "o">>
    /\ longopts[1].has_arg = optional_argument
    /\ longopts[2].name = <<"b">>

\* The tokens of the -l spec j.
SpecTokenSet(j) == Range(strtok_all(longoptsp[j], <<>>))

\* A token whose name is valid and all punctuation.
PunctOnly(t) ==
    ValidName(ClaimName(t))
    /\ SelectSeq(ClaimName(t), LAMBDA c : c \notin PunctChars) = <<>>

TableNames == {longopts[k].name : k \in 1..(Len(longopts) - 1)}

(***************************************************************************)
(* C7, as claimed.  With -p a token whose alias cannot be registered has   *)
(* the alias dropped silently: when every token names a valid name,        *)
(* add_longopts reports no failure and the invocation is not ended with    *)
(* the spec error.                                                         *)
(***************************************************************************)
C7_EmptyAliasDropped ==
    (norm_punct # 0
        /\ \A j \in 1..Len(longoptsp) :
               \A t \in SpecTokenSet(j) : ValidName(ClaimName(t)))
    => label # "internal_longopt_invalid"

(***************************************************************************)
(* C7, as amended.  With -p, a token whose name is all punctuation (its    *)
(* alias is empty) has its name registered, but the alias that fails to    *)
(* register is counted as a failure by add_longopts: the invocation ends   *)
(* at that -l spec with the spec error and returns 2, every valid name of  *)
(* the spec staying in the table.                                          *)
(***************************************************************************)
C7_EmptyAliasIsSpecError ==
    norm_punct # 0 =>
        \A j \in 1..Processed :
            (\E t \in SpecTokenSet(j) : PunctOnly(t)) =>
                /\ label = "internal_longopt_invalid"
                /\ lp = j - 1
                /\ ret = RET_BIN_ERR
                /\ pc \in {"done", "returned"}
                /\ \A t \in SpecTokenSet(j) :
                       ValidName(ClaimName(t)) => ClaimName(t) \in TableNames

\* -p with a spec of valid names only, one of them "+": the spec error.
C7_Witness ==
    /\ pc = "returned" /\ norm_punct # 0
    /\ label = "internal_longopt_invalid" /\ ret = RET_BIN_ERR
    /\ \A j \in 1..Len(longoptsp) :
           \A t \in SpecTokenSet(j) : ValidName(ClaimName(t))
    /\ <<"+">> \in TableNames

\* The invocation's own command line asks for quiet mode: it holds -q among
\* its own options, or its <shortopts> begins with ':'.
OwnQuiet ==
    \/ own_flags(args, 1, OwnFlagsInit(1)).opterr = 0
    \/ argi <= Len(args) /\ args[argi] # <<>> /\ args[argi][1] = ":"

\* The scan runs in quiet mode: the spec handed to the classifier begins
\* with ':'.
RunsQuiet == shortopts # NULL /\ shortopts # <<>> /\ shortopts[1] = ":"

(***************************************************************************)
(* C11.  Across any sequence of invocations, an invocation runs in quiet   *)
(* mode (its spec treated as ':'-prefixed, a missing argument returned as  *)
(* the ':' marker) exactly when its own command line holds -q or its own   *)
(* <shortopts> begins with ':'; an earlier invocation has no effect.       *)
(***************************************************************************)
C11_QuietIsOwn ==
    (pc \in {"scan", "done", "returned"} /\ label = "none") =>
        /\ RunsQuiet <=> OwnQuiet
        /\ (\E i \in 1..Len(steps) : steps[i].kind = "missing") => OwnQuiet

=============================================================================
